---- MODULE Spec2Model ----
(***************************************************************************)
(* Text-Summarization-using-Python: the extractive summarizers             *)
(* (src/summarizers/extractive.py), the abstractive wrapper                *)
(* (src/summarizers/abstractive.py) and the text cleaning they share       *)
(* (src/preprocessing/text_cleaning.py).                                   *)
(*                                                                         *)
(* A Python str is a sequence of one-character strings.  The characters    *)
(* 0x00 and 0x7f, which TLA+ cannot write as an escape, are named "NUL"    *)
(* and "DEL"; U+00A0, a whitespace character outside ASCII, is "NBSP".     *)
(* Python indices are 0-based and are kept 0-based in every    *)
(* value that holds one; s[i] of the code is s[i + 1] here.                *)
(***************************************************************************)
EXTENDS Integers, Sequences, FiniteSets, TLC

\* ------------------------------------------------------------------ bounds
\* longest raw text given to an extractive summarizer
MaxLen == 5
\* num_sentences is -1 (a negative count) or one of 0 .. MaxK
MaxK == 2
\* a score is one of 0 .. MaxScore (a rank key; only its order matters)
MaxScore == 1
\* request threads that may be inside a getter at once
NumThreads == 2
\* abstractive text lengths lie within Slack of a chunking threshold
Slack == 1
\* longest raw text given to basic_clean on its own
MaxCleanLen == 3
\* longest raw text of the repeated extractive calls
MaxRepeatLen == 3
\* longest text, and largest max_chars, given to _chunk_text on its own
MaxChunkLen == 5
MaxChunkChars == 3

\* ------------------------------------------------------ characters, strings
ControlChars == {"NUL", "\f", "DEL"}
Whitespace == {" ", "\t", "\n", "\r", "\f", "NBSP"}
SentEndChars == {".", "?", "!"}

\* the characters the extractive inputs are made of
Chars == {"a", ".", " ", "NUL"}

Min(a, b) == IF a <= b THEN a ELSE b
Max(a, b) == IF a >= b THEN a ELSE b

SeqsUpTo(S, n) == UNION {[1..m -> S] : m \in 0..n}

IsSpace(c) == c \in Whitespace

\* control characters left in place
ReplaceControlSkipped(t) == t

\* re.sub(r"[\x00-\x08\x0b\x0c\x0e-\x1f\x7f]", " ", text)
ReplaceControl(t) == [i \in 1..Len(t) |-> IF t[i] \in ControlChars THEN " " ELSE t[i]]

\* re.sub(r"\s+", " ", text): every maximal run of whitespace becomes one space
CollapseWhitespace(t) ==
    LET first(i) == ~IsSpace(t[i]) \/ i = 1 \/ ~IsSpace(t[i - 1])
        kept == SelectSeq([i \in 1..Len(t) |-> i], first)
    IN  [j \in 1..Len(kept) |-> IF IsSpace(t[kept[j]]) THEN " " ELSE t[kept[j]]]

\* str.strip()
Strip(t) ==
    IF \A i \in 1..Len(t) : IsSpace(t[i]) THEN <<>>
    ELSE LET lo == CHOOSE i \in 1..Len(t) :
                       ~IsSpace(t[i]) /\ \A j \in 1..(i - 1) : IsSpace(t[j])
             hi == CHOOSE i \in 1..Len(t) :
                       ~IsSpace(t[i]) /\ \A j \in (i + 1)..Len(t) : IsSpace(t[j])
         IN  SubSeq(t, lo, hi)

normalize_whitespace(t) == Strip(CollapseWhitespace(t))

basic_clean(t) == normalize_whitespace(ReplaceControl(t))

\* ------------------------------------------------------------ sentence_split
\* nltk's sent_tokenize is a trained boundary model outside this repository.
\* It can break only after a sentence-ending character that is followed by
\* whitespace; which of those places it breaks at is its own decision.
BreakCandidates(t) ==
    {i \in 1..Len(t) : t[i] \in SentEndChars /\ i < Len(t) /\ IsSpace(t[i + 1])}

RECURSIVE CutAt(_, _, _)
\* the pieces of t from position `from` on, cut after each position of breaks
CutAt(t, from, breaks) ==
    IF from > Len(t) THEN <<>>
    ELSE IF breaks = {} THEN <<SubSeq(t, from, Len(t))>>
    ELSE LET b == CHOOSE i \in breaks : \A j \in breaks : i <= j
         IN  <<SubSeq(t, from, b)>> \o CutAt(t, b + 1, breaks \ {b})

\* sent_tokenize(text) for one decision `breaks` of the boundary model
sent_tokenize(t, breaks) == IF t = <<>> THEN <<>> ELSE CutAt(t, 1, breaks)

\* [s.strip() for s in sentences if s and not s.isspace()]
KeepSentence(s) == s # <<>> /\ \E i \in 1..Len(s) : ~IsSpace(s[i])

sentence_split(t, breaks) ==
    LET raw == sent_tokenize(t, breaks)
        kept == SelectSeq(raw, KeepSentence)
    IN  [j \in 1..Len(kept) |-> Strip(kept[j])]

\* ------------------------------------------------------------------ selection
\* -scores_tensor
Negate(v) == [i \in 1..Len(v) |-> 0 - v[i]]

\* the orderings of 0 .. n-1
Orderings(n) == {p \in [1..n -> 0..(n - 1)] : \A a, b \in 1..n : a # b => p[a] # p[b]}

\* np.argsort(v) with the default kind ("quicksort", which numpy documents as
\* not stable): an ordering of the positions that puts the values in ascending
\* order; the order among equal values is whatever the build's sort leaves.
argsort(v) ==
    {p \in Orderings(Len(v)) :
        \A a, b \in 1..Len(v) : a < b => v[p[a] + 1] <= v[p[b] + 1]}

\* a clamp that forgets num_sentences (takes every sentence)
ClampKTakesAll(k, n) == n

\* min(num_sentences, len(sentences))
ClampK(k, n) == Min(k, n)

\* s[:k - 1]: a slice one element short
SliceToOneShort(s, k) == SubSeq(s, 1, Min(k - 1, Len(s)))

\* s[:k], Python slice semantics: a negative k counts from the end
SliceTo(s, k) ==
    IF k >= 0 THEN SubSeq(s, 1, Min(k, Len(s)))
    ELSE SubSeq(s, 1, Max(Len(s) + k, 0))

RECURSIVE InsertSorted(_, _)
InsertSorted(s, x) ==
    IF s = <<>> THEN <<x>>
    ELSE IF x < Head(s) THEN <<x>> \o s
    ELSE <<Head(s)>> \o InsertSorted(Tail(s), x)

\* the ranked indices left in rank order
LeftInRankOrder(s) == s

RECURSIVE sorted(_)
\* sorted(list of int)
sorted(s) == IF s = <<>> THEN <<>> ELSE InsertSorted(sorted(Tail(s)), Head(s))

RECURSIVE JoinNoSeparator(_)
\* "".join(strings): the separator forgotten
JoinNoSeparator(ss) == IF ss = <<>> THEN <<>> ELSE ss[1] \o JoinNoSeparator(Tail(ss))

RECURSIVE Join(_)
\* " ".join(strings)
Join(ss) ==
    IF ss = <<>> THEN <<>>
    ELSE IF Len(ss) = 1 THEN ss[1]
    ELSE ss[1] \o <<" ">> \o Join(Tail(ss))

ExtractiveSummaryResult(summary, selected_sentences, indices, scores) ==
    [summary |-> summary, selected_sentences |-> selected_sentences,
     indices |-> indices, scores |-> scores]

\* lines 64-77 and 104-117: rank, clamp, take, restore document order, build
BuildResult(sents, scores_arr, ranked, k) ==
    LET kk == ClampK(k, Len(sents))
        selected_idx == sorted(SliceTo(ranked, kk))
        selected_sentences == [j \in 1..Len(selected_idx) |-> sents[selected_idx[j] + 1]]
        selected_scores == [j \in 1..Len(selected_idx) |-> scores_arr[selected_idx[j] + 1]]
    IN  ExtractiveSummaryResult(Join(selected_sentences), selected_sentences,
                                selected_idx, selected_scores)

EmptyResult == ExtractiveSummaryResult(<<>>, <<>>, <<>>, <<>>)

\* ------------------------------------------------------------------ pagerank
\* nx.pagerank(graph, max_iter=100, tol=1.0e-6)
max_iter == 100

\* The iteration at which the power iteration's error first drops below
\* N * tol; max_iter + 1 stands for "not within the cap".  It is decided by
\* the similarity weights.  With one or two nodes the uniform start vector is
\* already stationary (no edge, or one edge whose normalised weight is 1), so
\* the first iteration ends the run.  From three nodes on the weights decide
\* (mixed-sign cosines can make the iteration diverge); the first two
\* iterations, the last one and "never" are taken.
FirstConverged(n) ==
    IF n <= 2 THEN {1} ELSE {1, 2, max_iter, max_iter + 1}

RECURSIVE PowerIteration(_, _)
\* for _ in range(max_iter): ... if err < N * tol: return x
\* raise PowerIterationFailedConvergence(max_iter)
PowerIteration(i, c) ==
    IF i > max_iter THEN [converged |-> FALSE, iters |-> max_iter]
    ELSE IF i = c THEN [converged |-> TRUE, iters |-> i]
    ELSE PowerIteration(i + 1, c)

pagerank(c) == PowerIteration(1, c)

ScoreVectors(n) == [1..n -> 0..MaxScore]

\* --------------------------------------------------------------------- state
ModelNames == {"all-MiniLM-L6-v2"}
Texts == SeqsUpTo(Chars, MaxLen)
NumSentences == {0 - 1} \cup (0..MaxK)
Threads == 1..NumThreads

VARIABLES
    \* extractive.py: one caller running one summarizer call at a time
    pc,               \* where the running call is
    fn,               \* "centroid" | "textrank": the summarizer called
    text,             \* argument text
    num_sentences,    \* argument num_sentences
    sentences,        \* sentence_split(basic_clean(text))
    scores_tensor,    \* the ranker's scores, one per sentence
    ranked_idx,       \* np.argsort(-scores)
    pr_iters,         \* iterations the power iteration ran
    result,           \* <<the ExtractiveSummaryResult returned>>, or <<>>
    error,            \* the exception the call raised, or "none"
    calls,            \* the collaborators this call has invoked, in order
    \* the module-level handles
    _sentence_model,        \* extractive._sentence_model: <<>> is None, else <<handle>>
    _abstractive_pipeline,  \* abstractive._abstractive_pipeline, likewise
    constructed,           \* per getter, how many times its constructor has run
    \* request threads, each inside one getter call
    tpc,              \* where thread t is in the getter
    tfn,              \* the getter thread t runs
    tnew,             \* the handle thread t has constructed and not yet stored
    tret,             \* <<the handle thread t's call returned>>, or <<>>
    \* abstractive.py: one caller running abstractive_summary
    apc,              \* where the running call is
    atext,            \* argument text
    chunks,           \* _chunk_text(cleaned)
    chunk_summaries,  \* chunk_summaries
    pipeline_calls,   \* the summarizer calls of this call: [input, output], in order
    aresult,          \* <<the AbstractiveSummaryResult returned>>, or <<>>
    \* text_cleaning.py: one caller running basic_clean
    cleaner,          \* [pc, text, out]: the argument and the value returned
    \* abstractive.py: one caller running _chunk_text
    chunker,          \* the call's arguments, loop variables and chunk offsets
    \* one process observed over repeated extractive calls
    tie_rule,         \* how this build's argsort orders equal keys
    probe,            \* the call that is repeated: [fn, text, num_sentences]
    first_outcome     \* <<what the first call of probe gave>>, or <<>>

extLocals == <<pc, fn, text, num_sentences, sentences, scores_tensor, ranked_idx,
               pr_iters, result, error, calls>>
globals == <<_sentence_model, _abstractive_pipeline, constructed>>
thrVars == <<tpc, tfn, tnew, tret>>
absLocals == <<apc, atext, chunks, chunk_summaries, pipeline_calls, aresult>>

pureVars == <<cleaner, chunker>>
repVars == <<tie_rule, probe, first_outcome>>

vars == <<extLocals, globals, thrVars, absLocals, pureVars, repVars>>

Getters == {"get_sentence_model", "get_abstractive_pipeline"}

\* the object a constructor returns: the n-th one built by its getter
Handle(name, n) == [name |-> name, id |-> n]

InitExtractive ==
    /\ pc = "idle"
    /\ fn = "centroid"
    /\ text = <<>>
    /\ num_sentences = 0
    /\ sentences = <<>>
    /\ scores_tensor = <<>>
    /\ ranked_idx = <<>>
    /\ pr_iters = 0
    /\ result = <<>>
    /\ error = "none"
    /\ calls = <<>>

\* module import: both handles are None
InitGlobals ==
    /\ _sentence_model = <<>>
    /\ _abstractive_pipeline = <<>>
    /\ constructed = [g \in Getters |-> 0]

InitThreads ==
    /\ tpc = [t \in Threads |-> "idle"]
    /\ tfn = [t \in Threads |-> "get_sentence_model"]
    /\ tnew = [t \in Threads |-> <<>>]
    /\ tret = [t \in Threads |-> <<>>]

InitAbstractive ==
    /\ apc = "idle"
    /\ atext = <<>>
    /\ chunks = <<>>
    /\ chunk_summaries = <<>>
    /\ pipeline_calls = <<>>
    /\ aresult = <<>>

InitPure ==
    /\ cleaner = [pc |-> "idle", text |-> <<>>, out |-> <<>>]
    /\ chunker = [pc |-> "idle"]

\* no call is singled out and no argsort rule is fixed
NoProbe ==
    /\ tie_rule = "any"
    /\ probe = <<>>
    /\ first_outcome = <<>>

Init ==
    /\ InitExtractive /\ InitGlobals /\ InitThreads /\ InitAbstractive
    /\ InitPure /\ NoProbe

\* the early return left out
NoSentencesUnchecked(sents) == FALSE

\* if not sentences
NoSentences(sents) == sents = <<>>

\* lines 51-54 and 89-92: clean, split, and return the empty result at once
\* when there is no sentence
Enter(f, t, k, breaks) ==
    LET cleaned == basic_clean(t)
        sents == sentence_split(cleaned, breaks)
    IN  /\ pc = "idle"
        /\ fn' = f
        /\ text' = t
        /\ num_sentences' = k
        /\ sentences' = sents
        /\ scores_tensor' = <<>>
        /\ ranked_idx' = <<>>
        /\ pr_iters' = 0
        /\ error' = "none"
        /\ calls' = <<>>
        /\ IF NoSentences(sents)
             THEN /\ result' = <<EmptyResult>>
                  /\ pc' = "done"
             ELSE /\ result' = <<>>
                  /\ pc' = "model"
        /\ UNCHANGED <<globals, thrVars, absLocals, pureVars, repVars>>

centroid_extractive_summary ==
    /\ pc = "idle"
    /\ \E t \in Texts, k \in NumSentences :
        \E breaks \in SUBSET BreakCandidates(basic_clean(t)) :
            Enter("centroid", t, k, breaks)

textrank_extractive_summary ==
    /\ pc = "idle"
    /\ \E t \in Texts, k \in NumSentences :
        \E breaks \in SUBSET BreakCandidates(basic_clean(t)) :
            Enter("textrank", t, k, breaks)

\* a getter that loads again whenever the cached model has another name
get_sentence_model_per_name(model_name) ==
    /\ IF _sentence_model = <<>> \/ _sentence_model[1].name # model_name
         THEN /\ _sentence_model' =
                    <<Handle(model_name, constructed["get_sentence_model"] + 1)>>
              /\ constructed' = [constructed EXCEPT !["get_sentence_model"] = @ + 1]
              /\ calls' = calls \o <<"SentenceTransformer", "encode">>
         ELSE /\ UNCHANGED <<_sentence_model, constructed>>
              /\ calls' = calls \o <<"encode">>
    /\ UNCHANGED _abstractive_pipeline

\* get_sentence_model(model_name), lines 16-20, run by the one caller
get_sentence_model(model_name) ==
    /\ IF _sentence_model = <<>>
         THEN /\ _sentence_model' =
                    <<Handle(model_name, constructed["get_sentence_model"] + 1)>>
              /\ constructed' = [constructed EXCEPT !["get_sentence_model"] = @ + 1]
              /\ calls' = calls \o <<"SentenceTransformer", "encode">>
         ELSE /\ UNCHANGED <<_sentence_model, constructed>>
              /\ calls' = calls \o <<"encode">>
    /\ UNCHANGED _abstractive_pipeline

\* lines 56-62: get the model, embed, score against the centroid
CentroidScores ==
    /\ pc = "model" /\ fn = "centroid"
    /\ \E m \in ModelNames : get_sentence_model(m)
    /\ \E v \in ScoreVectors(Len(sentences)) : scores_tensor' = v
    /\ pc' = "select"
    /\ UNCHANGED <<fn, text, num_sentences, sentences, ranked_idx, pr_iters, result, error>>
    /\ UNCHANGED <<thrVars, absLocals, pureVars, repVars>>

\* lines 94-95: get the model, build the similarity matrix
SimilarityMatrix ==
    /\ pc = "model" /\ fn = "textrank"
    /\ \E m \in ModelNames : get_sentence_model(m)
    /\ pc' = "pagerank"
    /\ UNCHANGED <<fn, text, num_sentences, sentences, scores_tensor, ranked_idx,
                   pr_iters, result, error>>
    /\ UNCHANGED <<thrVars, absLocals, pureVars, repVars>>

\* lines 98-103: the graph, nx.pagerank, the scores as an array.  The call has
\* no handler around nx.pagerank: what it raises leaves the summarizer.
Pagerank ==
    /\ pc = "pagerank"
    /\ \E c \in FirstConverged(Len(sentences)) :
         LET r == pagerank(c)
         IN  /\ pr_iters' = r.iters
             /\ IF r.converged
                  THEN /\ \E v \in ScoreVectors(Len(sentences)) : scores_tensor' = v
                       /\ pc' = "select"
                       /\ error' = error
                  ELSE /\ scores_tensor' = scores_tensor
                       /\ pc' = "raised"
                       /\ error' = "PowerIterationFailedConvergence"
    /\ calls' = calls \o <<"pagerank">>
    /\ UNCHANGED <<fn, text, num_sentences, sentences, ranked_idx, result>>
    /\ UNCHANGED <<globals, thrVars, absLocals, pureVars, repVars>>

\* lines 64-77 and 104-117
Select ==
    /\ pc = "select"
    /\ \E p \in argsort(Negate(scores_tensor)) :
         /\ ranked_idx' = p
         /\ result' = <<BuildResult(sentences, scores_tensor, p, num_sentences)>>
    /\ pc' = "done"
    /\ UNCHANGED <<fn, text, num_sentences, sentences, scores_tensor, pr_iters,
                   error, calls>>
    /\ UNCHANGED <<globals, thrVars, absLocals, pureVars, repVars>>

\* the caller takes the result (or the exception) and may call again; the
\* module-level _sentence_model outlives the call
Return ==
    /\ pc \in {"done", "raised"}
    /\ pc' = "idle"
    /\ fn' = "centroid"
    /\ text' = <<>>
    /\ num_sentences' = 0
    /\ sentences' = <<>>
    /\ scores_tensor' = <<>>
    /\ ranked_idx' = <<>>
    /\ pr_iters' = 0
    /\ result' = <<>>
    /\ error' = "none"
    /\ calls' = <<>>
    /\ UNCHANGED <<globals, thrVars, absLocals, pureVars, repVars>>

Next ==
    \/ centroid_extractive_summary
    \/ textrank_extractive_summary
    \/ CentroidScores
    \/ SimilarityMatrix
    \/ Pagerank
    \/ Select
    \/ Return

Spec == Init /\ [][Next]_vars

\* ------------------------------------------------- the getters, per thread
\* api/main.py's summarize is a plain def endpoint: the server runs each
\* request on a worker thread, so two requests can be inside a getter at once.
\* The interpreter may switch threads between any two steps of lines 18-20
\* (25-28 for the abstractive getter); the constructor loads a model and
\* takes long.
Global(g) == IF g = "get_sentence_model" THEN _sentence_model ELSE _abstractive_pipeline

DefaultModel(g) ==
    IF g = "get_sentence_model" THEN "all-MiniLM-L6-v2" ELSE "facebook/bart-large-cnn"

\* a request thread enters a getter
ThreadCall(t) ==
    /\ tpc[t] = "idle"
    /\ \E g \in Getters : tfn' = [tfn EXCEPT ![t] = g]
    /\ tpc' = [tpc EXCEPT ![t] = "check"]
    /\ UNCHANGED <<tnew, tret, globals, extLocals, absLocals, pureVars, repVars>>

\* if _sentence_model is None:
ThreadCheck(t) ==
    /\ tpc[t] = "check"
    /\ tpc' = [tpc EXCEPT ![t] = IF Global(tfn[t]) = <<>> THEN "construct" ELSE "return"]
    /\ UNCHANGED <<tfn, tnew, tret, globals, extLocals, absLocals, pureVars, repVars>>

\* SentenceTransformer(model_name) / pipeline("summarization", ...)
ThreadConstruct(t) ==
    /\ tpc[t] = "construct"
    /\ constructed' = [constructed EXCEPT ![tfn[t]] = @ + 1]
    /\ tnew' = [tnew EXCEPT ![t] = <<Handle(DefaultModel(tfn[t]), constructed[tfn[t]] + 1)>>]
    /\ tpc' = [tpc EXCEPT ![t] = "store"]
    /\ UNCHANGED <<tfn, tret, _sentence_model, _abstractive_pipeline, extLocals, absLocals, pureVars, repVars>>

\* _sentence_model = <the new object>
ThreadStore(t) ==
    /\ tpc[t] = "store"
    /\ IF tfn[t] = "get_sentence_model"
         THEN _sentence_model' = tnew[t] /\ UNCHANGED _abstractive_pipeline
         ELSE _abstractive_pipeline' = tnew[t] /\ UNCHANGED _sentence_model
    /\ tnew' = [tnew EXCEPT ![t] = <<>>]
    /\ tpc' = [tpc EXCEPT ![t] = "return"]
    /\ UNCHANGED <<tfn, tret, constructed, extLocals, absLocals, pureVars, repVars>>

\* return _sentence_model
ThreadReturn(t) ==
    /\ tpc[t] = "return"
    /\ tret' = [tret EXCEPT ![t] = Global(tfn[t])]
    /\ tpc' = [tpc EXCEPT ![t] = "done"]
    /\ UNCHANGED <<tfn, tnew, globals, extLocals, absLocals, pureVars, repVars>>

NextThreads ==
    \/ \E t \in Threads : ThreadCall(t)
    \/ \E t \in Threads : ThreadCheck(t)
    \/ \E t \in Threads : ThreadConstruct(t)
    \/ \E t \in Threads : ThreadStore(t)
    \/ \E t \in Threads : ThreadReturn(t)

SpecThreads == Init /\ [][NextThreads]_vars

\* ---------------------------------------------------------- abstractive.py
\* _chunk_text(text, max_chars=2000, overlap=200)
max_chars == 2000
overlap == 200

\* text[a:b], Python slice semantics for 0 <= b <= len: a negative start
\* counts from the end and is clamped at 0
Slice(t, a, b) ==
    LET from == IF a < 0 THEN Max(Len(t) + a, 0) ELSE a
    IN  SubSeq(t, from + 1, b)

\* the overlap forgotten: the next chunk starts where this one ended
NextStartAtEnd(end, ov) == end

\* start = end - overlap (line 54)
NextStart(end, ov) == end - ov

RECURSIVE ChunkLoop(_, _, _, _, _)
\* while start < len(text): ... (lines 48-54)
ChunkLoop(t, start, mc, ov, acc) ==
    IF ~(start < Len(t)) THEN acc
    ELSE LET end == Min(Len(t), start + mc)
             chunk == Slice(t, start, end)
         IN  IF end = Len(t) THEN Append(acc, chunk)
             ELSE ChunkLoop(t, NextStart(end, ov), mc, ov, Append(acc, chunk))

_chunk_text(t, mc, ov) ==
    IF Len(t) <= mc THEN <<t>> ELSE ChunkLoop(t, 0, mc, ov, <<>>)

\* what the generative model can answer (result[0]["summary_text"])
Summaries == {<<"s">>, <<"t", ".">>}

\* the raw texts given to abstractive_summary: Body "a"s, possibly wrapped in
\* characters the cleaning removes
Repeat(c, n) == [i \in 1..n |-> c]
Leads == {<<>>, <<" ", "NUL">>}
Trails == {<<>>, <<"\n">>}
\* body lengths: short ones, and Slack to either side of the lengths at which
\* the number of chunks changes
BodyLengths ==
    (0..Slack)
    \cup ((max_chars - Slack)..(max_chars + Slack))
    \cup ((2 * max_chars - overlap - Slack)..(2 * max_chars - overlap + Slack))
AbstractiveTexts ==
    {l \o Repeat("a", n) \o r : l \in Leads, n \in BodyLengths, r \in Trails}

AbstractiveSummaryResult(summary, cs, css) ==
    [summary |-> summary, chunks |-> cs, chunk_summaries |-> css]

\* get_abstractive_pipeline(model_name, device), lines 14-28, run by the one caller
get_abstractive_pipeline(model_name) ==
    /\ IF _abstractive_pipeline = <<>>
         THEN /\ _abstractive_pipeline' =
                    <<Handle(model_name, constructed["get_abstractive_pipeline"] + 1)>>
              /\ constructed' = [constructed EXCEPT !["get_abstractive_pipeline"] = @ + 1]
         ELSE UNCHANGED <<_abstractive_pipeline, constructed>>
    /\ UNCHANGED _sentence_model

\* lines 68-72: clean, get the pipeline, chunk
abstractive_summary ==
    /\ apc = "idle"
    /\ \E t \in AbstractiveTexts :
         /\ atext' = t
         /\ chunks' = _chunk_text(basic_clean(t), max_chars, overlap)
    /\ get_abstractive_pipeline("facebook/bart-large-cnn")
    /\ chunk_summaries' = <<>>
    /\ pipeline_calls' = <<>>
    /\ aresult' = <<>>
    /\ apc' = "chunks"
    /\ UNCHANGED <<extLocals, thrVars, pureVars, repVars>>

\* lines 74-81: one turn of `for chunk in chunks`
SummarizeChunk ==
    /\ apc = "chunks"
    /\ Len(chunk_summaries) < Len(chunks)
    /\ LET chunk == chunks[Len(chunk_summaries) + 1]
       IN  \E out \in Summaries :
             /\ pipeline_calls' = Append(pipeline_calls, [input |-> chunk, output |-> out])
             /\ chunk_summaries' = Append(chunk_summaries, out)
    /\ UNCHANGED <<apc, atext, chunks, aresult, globals, extLocals, thrVars, pureVars, repVars>>

\* the second-stage call never made
CombinesNever(css) == FALSE

\* the second-stage call made whatever the number of chunks
CombinesAlways(css) == TRUE

\* if len(chunk_summaries) == 1 ... else (line 83)
NeedsCombining(css) == Len(css) # 1

\* lines 83-99: one summary is final; several are joined and summarized again
Combine ==
    /\ apc = "chunks"
    /\ Len(chunk_summaries) = Len(chunks)
    /\ IF NeedsCombining(chunk_summaries)
         THEN LET combined == Join(chunk_summaries)
              IN  \E out \in Summaries :
                    /\ pipeline_calls' = Append(pipeline_calls,
                                                [input |-> combined, output |-> out])
                    /\ aresult' = <<AbstractiveSummaryResult(out, chunks, chunk_summaries)>>
         ELSE /\ pipeline_calls' = pipeline_calls
              /\ aresult' = <<AbstractiveSummaryResult(chunk_summaries[1], chunks,
                                                       chunk_summaries)>>
    /\ apc' = "done"
    /\ UNCHANGED <<atext, chunks, chunk_summaries, globals, extLocals, thrVars, pureVars, repVars>>

\* the caller takes the result and may call again
AbstractiveReturn ==
    /\ apc = "done"
    /\ apc' = "idle"
    /\ atext' = <<>>
    /\ chunks' = <<>>
    /\ chunk_summaries' = <<>>
    /\ pipeline_calls' = <<>>
    /\ aresult' = <<>>
    /\ UNCHANGED <<globals, extLocals, thrVars, pureVars, repVars>>

NextAbstractive ==
    \/ abstractive_summary
    \/ SummarizeChunk
    \/ Combine
    \/ AbstractiveReturn

SpecAbstractive == Init /\ [][NextAbstractive]_vars

\* a call that has started keeps running: the interpreter takes the next turn
\* of the for loop while one is left, then lines 83-99
SpecAbstractiveRuns ==
    SpecAbstractive /\ WF_vars(SummarizeChunk) /\ WF_vars(Combine)

\* ------------------------------------- one process, calls one after another
\* The collaborators are deterministic here: the tokenizer, the embedder of
\* each model, the power iteration and argsort are functions of their inputs.
\* An unstable sort is still a function: tie_rule is the order this build
\* gives to equal keys.
RepeatModels == ModelNames \cup {"paraphrase-MiniLM-L3-v2"}
RepeatTexts == SeqsUpTo({".", " "}, MaxRepeatLen)
RepeatK == {1, MaxK}
TieRules == {"ascending", "descending"}
Probes == [fn : {"centroid", "textrank"}, text : RepeatTexts, num_sentences : RepeatK]

\* sent_tokenize as a function: it breaks at every candidate
punkt(t) == BreakCandidates(t)

\* model.encode and the score computed from it, as a function of the model
\* and the sentences; the two models score every sentence differently
encode(handle, sents) ==
    [i \in 1..Len(sents) |->
        (Len(sents[i]) + (IF handle.name \in ModelNames THEN 0 ELSE 1)) % (MaxScore + 1)]

\* the iteration at which nx.pagerank's test first passes, as a function of
\* the graph, which the model and the sentences determine
converges(handle, sents) ==
    IF Len(sents) <= 2 THEN 1
    ELSE IF handle.name \in ModelNames THEN 2 ELSE max_iter + 1

\* np.argsort as a function: the sorting permutation that puts equal keys in
\* the order of rule
TieOrder(rule, v) ==
    CHOOSE p \in argsort(v) :
        \A a, b \in 1..Len(v) :
            (a < b /\ v[p[a] + 1] = v[p[b] + 1]) =>
                IF rule = "ascending" THEN p[a] < p[b] ELSE p[a] > p[b]

InitRepeat ==
    /\ InitExtractive /\ InitGlobals /\ InitThreads /\ InitAbstractive /\ InitPure
    /\ tie_rule \in TieRules
    /\ probe \in Probes
    /\ first_outcome = <<>>

\* lines 51-54 and 89-92, either summarizer
RepeatCall ==
    /\ pc = "idle"
    /\ \E f \in {"centroid", "textrank"}, t \in RepeatTexts, k \in RepeatK :
         Enter(f, t, k, punkt(basic_clean(t)))

\* lines 56-62
RepeatCentroidScores ==
    /\ pc = "model" /\ fn = "centroid"
    /\ \E m \in RepeatModels : get_sentence_model(m)
    /\ scores_tensor' = encode(_sentence_model'[1], sentences)
    /\ pc' = "select"
    /\ UNCHANGED <<fn, text, num_sentences, sentences, ranked_idx, pr_iters, result, error>>
    /\ UNCHANGED <<thrVars, absLocals, pureVars, repVars>>

\* lines 94-95
RepeatSimilarityMatrix ==
    /\ pc = "model" /\ fn = "textrank"
    /\ \E m \in RepeatModels : get_sentence_model(m)
    /\ pc' = "pagerank"
    /\ UNCHANGED <<fn, text, num_sentences, sentences, scores_tensor, ranked_idx,
                   pr_iters, result, error>>
    /\ UNCHANGED <<thrVars, absLocals, pureVars, repVars>>

\* lines 98-103
RepeatPagerank ==
    /\ pc = "pagerank"
    /\ LET r == pagerank(converges(_sentence_model[1], sentences))
       IN  /\ pr_iters' = r.iters
           /\ IF r.converged
                THEN /\ scores_tensor' = encode(_sentence_model[1], sentences)
                     /\ pc' = "select"
                     /\ error' = error
                ELSE /\ scores_tensor' = scores_tensor
                     /\ pc' = "raised"
                     /\ error' = "PowerIterationFailedConvergence"
    /\ calls' = calls \o <<"pagerank">>
    /\ UNCHANGED <<fn, text, num_sentences, sentences, ranked_idx, result>>
    /\ UNCHANGED <<globals, thrVars, absLocals, pureVars, repVars>>

\* lines 64-77 and 104-117
RepeatSelect ==
    /\ pc = "select"
    /\ LET p == TieOrder(tie_rule, Negate(scores_tensor))
       IN  /\ ranked_idx' = p
           /\ result' = <<BuildResult(sentences, scores_tensor, p, num_sentences)>>
    /\ pc' = "done"
    /\ UNCHANGED <<fn, text, num_sentences, sentences, scores_tensor, pr_iters,
                   error, calls>>
    /\ UNCHANGED <<globals, thrVars, absLocals, pureVars, repVars>>

\* what the caller of the running call receives
Outcome == [result |-> result, error |-> error]
IsProbe == [fn |-> fn, text |-> text, num_sentences |-> num_sentences] = probe

\* the caller takes the result (or the exception) and may call again.  What
\* the first call of probe gave is kept, with whether a different call has
\* returned since.
RepeatReturn ==
    /\ pc \in {"done", "raised"}
    /\ first_outcome' =
         IF first_outcome = <<>>
           THEN IF IsProbe THEN <<[outcome |-> Outcome, between |-> FALSE]>> ELSE <<>>
           ELSE IF IsProbe THEN first_outcome
                ELSE <<[first_outcome[1] EXCEPT !.between = TRUE]>>
    /\ pc' = "idle"
    /\ fn' = "centroid"
    /\ text' = <<>>
    /\ num_sentences' = 0
    /\ sentences' = <<>>
    /\ scores_tensor' = <<>>
    /\ ranked_idx' = <<>>
    /\ pr_iters' = 0
    /\ result' = <<>>
    /\ error' = "none"
    /\ calls' = <<>>
    /\ UNCHANGED <<tie_rule, probe, globals, thrVars, absLocals, pureVars>>

NextRepeat ==
    \/ RepeatCall
    \/ RepeatCentroidScores
    \/ RepeatSimilarityMatrix
    \/ RepeatPagerank
    \/ RepeatSelect
    \/ RepeatReturn

SpecRepeat == InitRepeat /\ [][NextRepeat]_vars

\* ------------------------------------------------------ basic_clean, alone
\* the characters the texts given to basic_clean are made of: a letter, ASCII
\* and non-ASCII whitespace, and control characters (form feed is both)
CleanChars == {"a", " ", "\t", "\n", "NBSP", "NUL", "\f"}

CleanTexts == SeqsUpTo(CleanChars, MaxCleanLen)

\* a caller passes a text to basic_clean and holds what it returns
CallBasicClean ==
    /\ cleaner.pc = "idle"
    /\ \E t \in CleanTexts :
         cleaner' = [pc |-> "done", text |-> t, out |-> basic_clean(t)]
    /\ UNCHANGED <<chunker, extLocals, globals, thrVars, absLocals, repVars>>

\* the caller drops the value and may call again
CleanReturn ==
    /\ cleaner.pc = "done"
    /\ cleaner' = [pc |-> "idle", text |-> <<>>, out |-> <<>>]
    /\ UNCHANGED <<chunker, extLocals, globals, thrVars, absLocals, repVars>>

NextClean ==
    \/ CallBasicClean
    \/ CleanReturn

SpecClean == Init /\ [][NextClean]_vars

\* ------------------------------------------------------ _chunk_text, alone
\* the calls made: short texts with every small max_chars and every overlap
\* below it, and the default parameters with texts around their thresholds
ChunkCalls ==
    {<<t, mc, ov>> : t \in SeqsUpTo({"a", "b"}, MaxChunkLen),
                     mc \in 1..MaxChunkChars, ov \in 0..(MaxChunkChars - 1)}
    \cup {<<Repeat("a", n), max_chars, overlap>> : n \in BodyLengths}

\* lines 43-47: a text that fits is the only chunk; else the loop starts at 0.
\* starts keeps the offset each chunk was cut at.
CallChunkText ==
    /\ chunker.pc = "idle"
    /\ \E c \in ChunkCalls :
         /\ c[3] < c[2]
         /\ chunker' =
              IF Len(c[1]) <= c[2]
                THEN [pc |-> "done", text |-> c[1], max_chars |-> c[2], overlap |-> c[3],
                      start |-> 0, chunks |-> <<c[1]>>, starts |-> <<0>>]
                ELSE [pc |-> "loop", text |-> c[1], max_chars |-> c[2], overlap |-> c[3],
                      start |-> 0, chunks |-> <<>>, starts |-> <<>>]
    /\ UNCHANGED <<cleaner, extLocals, globals, thrVars, absLocals, repVars>>

\* lines 48-54: one turn of the while loop, or its exit
ChunkTurn ==
    /\ chunker.pc = "loop"
    /\ LET t == chunker.text
           start == chunker.start
           end == Min(Len(t), start + chunker.max_chars)
           chunk == Slice(t, start, end)
       IN  chunker' =
             IF ~(start < Len(t)) THEN [chunker EXCEPT !.pc = "done"]
             ELSE IF end = Len(t)
               THEN [chunker EXCEPT !.chunks = Append(@, chunk),
                                    !.starts = Append(@, start),
                                    !.pc = "done"]
               ELSE [chunker EXCEPT !.chunks = Append(@, chunk),
                                    !.starts = Append(@, start),
                                    !.start = NextStart(end, chunker.overlap)]
    /\ UNCHANGED <<cleaner, extLocals, globals, thrVars, absLocals, repVars>>

\* line 55: the caller takes the chunks and may call again
ChunkReturn ==
    /\ chunker.pc = "done"
    /\ chunker' = [pc |-> "idle"]
    /\ UNCHANGED <<cleaner, extLocals, globals, thrVars, absLocals, repVars>>

NextChunk ==
    \/ CallChunkText
    \/ ChunkTurn
    \/ ChunkReturn

\* a call that is in the loop keeps taking turns
SpecChunk == Init /\ [][NextChunk]_vars /\ WF_vars(ChunkTurn)

\* ==================================================================== claims
N == Len(sentences)
Returned == pc = "done"
Res == result[1]
RankOrderDiffers == Len(ranked_idx) >= 2 /\ ranked_idx[1] > ranked_idx[2]

\* C1: in every returned result the three lists have the same length, which is
\* min(k, N) when k >= 1, and they and the summary are empty when k <= 0 or
\* N = 0.  (The claim as stated; the code breaks it for a negative k.)
C1_LengthsAreMinKN ==
    Returned =>
        /\ num_sentences >= 1 =>
             /\ Len(Res.indices) = Min(num_sentences, N)
             /\ Len(Res.scores) = Min(num_sentences, N)
             /\ Len(Res.selected_sentences) = Min(num_sentences, N)
        /\ (num_sentences <= 0 \/ N = 0) =>
             /\ Res.indices = <<>>
             /\ Res.scores = <<>>
             /\ Res.selected_sentences = <<>>
             /\ Res.summary = <<>>

\* C2: with N >= 1 sentences, the returned indices are strictly ascending and
\* each lies in 0 .. N-1, whatever num_sentences is.
C2_IndicesStrictlyAscending ==
    (Returned /\ N >= 1) =>
        /\ \A j \in 1..Len(Res.indices) : Res.indices[j] \in 0..(N - 1)
        /\ \A j \in 1..(Len(Res.indices) - 1) : Res.indices[j] < Res.indices[j + 1]

C2_Witness == Returned /\ Len(Res.indices) >= 2 /\ RankOrderDiffers

\* where the j-th selected sentence starts in the summary (0-based offset)
RECURSIVE OffsetOf(_, _)
OffsetOf(ss, j) == IF j = 1 THEN 0 ELSE OffsetOf(ss, j - 1) + Len(ss[j - 1]) + 1

\* C3: selected_sentences[j] is the splitter's sentence at indices[j], the
\* selected sentences stand in document order, and the summary is exactly those
\* sentences, each followed by one space except the last.
C3_SummaryIsSelectionInDocumentOrder ==
    Returned =>
        LET sel == Res.selected_sentences
            n == Len(sel)
        IN  /\ n = Len(Res.indices)
            /\ \A j \in 1..n : sel[j] = sentences[Res.indices[j] + 1]
            /\ \A i, j \in 1..n : i < j => Res.indices[i] < Res.indices[j]
            /\ n = 0 => Res.summary = <<>>
            /\ n > 0 =>
                 /\ Len(Res.summary) = OffsetOf(sel, n) + Len(sel[n])
                 /\ \A j \in 1..n :
                      /\ SubSeq(Res.summary, OffsetOf(sel, j) + 1,
                                OffsetOf(sel, j) + Len(sel[j])) = sel[j]
                      /\ j < n => Res.summary[OffsetOf(sel, j) + Len(sel[j]) + 1] = " "

C3_Witness ==
    /\ Returned /\ Len(Res.selected_sentences) >= 2 /\ RankOrderDiffers
    /\ Res.selected_sentences[1] # Res.selected_sentences[2]

\* C4: the centroid summarizer, given at least one sentence and k >= 1,
\* returns a non-empty summary and at most k selected sentences.
C4_CentroidNonEmptyAtMostK ==
    (Returned /\ fn = "centroid" /\ N >= 1 /\ num_sentences >= 1) =>
        /\ Res.summary # <<>>
        /\ Len(Res.selected_sentences) <= num_sentences

C4_Witness ==
    /\ Returned /\ fn = "centroid" /\ num_sentences >= 1 /\ N > num_sentences
    /\ Len(Res.selected_sentences) = num_sentences

TextIsBlank(t) == \A i \in 1..Len(t) : t[i] \in Whitespace \cup ControlChars

\* C5: a call whose cleaned text has no sentence (in particular every call on
\* an empty, whitespace-only or control-character-only text) returns at once
\* the empty result: it raises nothing and invokes neither the model
\* constructor nor the embedder.
C5_NoSentencesEmptyResultNoModel ==
    (pc # "idle" /\ (N = 0 \/ TextIsBlank(text))) =>
        /\ pc = "done"
        /\ N = 0
        /\ error = "none"
        /\ Res.summary = <<>>
        /\ Res.selected_sentences = <<>>
        /\ Res.indices = <<>>
        /\ Res.scores = <<>>
        /\ calls = <<>>

C5_Witness ==
    /\ Returned /\ N = 0 /\ text # <<>> /\ _sentence_model = <<>>
    /\ \E i \in 1..Len(text) : text[i] \in ControlChars
    /\ \E i \in 1..Len(text) : text[i] = " "

\* C6: a one-sentence document with k >= 1 never makes either ranker raise,
\* and the result is that sentence alone: indices = [0], one score (the
\* ranker's score of sentence 0), and the summary is the cleaned text.
C6_SingleSentence ==
    (N = 1 /\ num_sentences >= 1) =>
        /\ pc # "raised"
        /\ Returned =>
             /\ Res.selected_sentences = <<sentences[1]>>
             /\ Res.indices = <<0>>
             /\ Len(Res.scores) = 1
             /\ Res.scores[1] = scores_tensor[1]
             /\ Res.summary = basic_clean(text)

C6_Witness ==
    /\ Returned /\ fn = "textrank" /\ N = 1 /\ num_sentences > 1
    /\ pr_iters = 1 /\ Len(Res.selected_sentences) = 1

\* sentence i ranks before sentence j: higher score, or equal score and lower index
RanksBefore(i, j) ==
    \/ scores_tensor[i + 1] > scores_tensor[j + 1]
    \/ scores_tensor[i + 1] = scores_tensor[j + 1] /\ i < j

\* C7: for 1 <= k <= N the selected set is exactly the k indices that come
\* first by descending score with ties broken by ascending index.  (The claim
\* as stated; the code's default argsort does not fix the order of ties.)
C7_TopKTiesByAscendingIndex ==
    (Returned /\ num_sentences >= 1 /\ num_sentences <= N) =>
        LET chosen == {Res.indices[j] : j \in 1..Len(Res.indices)}
        IN  /\ Cardinality(chosen) = num_sentences
            /\ \A i \in chosen : \A j \in (0..(N - 1)) \ chosen : RanksBefore(i, j)

\* C8: the power iteration runs at most max_iter iterations, and a run that
\* reaches the cap without converging is not an error: the summarizer still
\* returns a result.  (The claim as stated; nx.pagerank raises at the cap and
\* the summarizer lets the exception through.)
C8_NonConvergenceIsNotAnError ==
    /\ pr_iters <= max_iter
    /\ pc # "raised"
    /\ error = "none"

\* C9: each module-level handle is initialized once and reused, also when
\* first use is concurrent: under every interleaving the constructor of a
\* getter runs at most once and all callers of the getter receive the same
\* handle.  (The claim as stated; the getters check and assign without a lock.)
C9_InitializedOnceSameHandle ==
    /\ \A g \in Getters : constructed[g] <= 1
    /\ \A t1, t2 \in Threads :
         (tpc[t1] = "done" /\ tpc[t2] = "done" /\ tfn[t1] = tfn[t2]) => tret[t1] = tret[t2]

ARes == aresult[1]
ACleaned == basic_clean(atext)

\* C10: when the cleaned text is no longer than max_chars, the chunks are the
\* cleaned text alone, there is one chunk summary, the generative model is
\* called exactly once (on that text) and its output is the final summary.
C10_ShortTextOneChunkOneCall ==
    (apc = "done" /\ Len(ACleaned) <= max_chars) =>
        /\ ARes.chunks = <<ACleaned>>
        /\ Len(ARes.chunk_summaries) = 1
        /\ Len(pipeline_calls) = 1
        /\ pipeline_calls[1].input = ACleaned
        /\ ARes.summary = pipeline_calls[1].output

C10_Witness ==
    /\ apc = "done" /\ Len(ACleaned) = max_chars /\ Len(atext) > max_chars
    /\ Len(pipeline_calls) = 1

C12_RepeatedCallSameOutcome ==
    (pc \in {"done", "raised"} /\ IsProbe /\ first_outcome # <<>>) =>
        Outcome = first_outcome[1].outcome

\* the second call has returned two tied sentences' worth of result, a
\* different call ran in between, and this call did not load the model
C12_Witness ==
    /\ pc = "done" /\ IsProbe /\ first_outcome # <<>>
    /\ first_outcome[1].between
    /\ Len(sentences) >= 2
    /\ Len(result[1].indices) = 1
    /\ scores_tensor[1] = scores_tensor[2]
    /\ "SentenceTransformer" \notin {calls[i] : i \in 1..Len(calls)}

\* the calls made so far are one per chunk, in chunk order; at the return,
\* one chunk means one call whose output is the summary, several chunks mean
\* one more call, on the chunk summaries joined by single spaces, whose output
\* is the summary
CallsFollowChunks ==
    apc \in {"chunks", "done"} =>
        LET n == Len(chunk_summaries)
            last == pipeline_calls[Len(pipeline_calls)]
        IN  /\ n <= Len(chunks)
            /\ \A i \in 1..n :
                 pipeline_calls[i] = [input |-> chunks[i], output |-> chunk_summaries[i]]
            /\ apc = "chunks" => Len(pipeline_calls) = n
            /\ apc = "done" =>
                 /\ n = Len(chunks)
                 /\ ARes.chunks = chunks /\ ARes.chunk_summaries = chunk_summaries
                 /\ IF Len(chunks) = 1
                      THEN /\ Len(pipeline_calls) = 1
                           /\ ARes.summary = chunk_summaries[1]
                      ELSE /\ Len(pipeline_calls) = Len(chunks) + 1
                           /\ ARes.summary = last.output
                           /\ Len(last.input) =
                                OffsetOf(chunk_summaries, n) + Len(chunk_summaries[n])
                           /\ \A j \in 1..n :
                                LET at == OffsetOf(chunk_summaries, j)
                                    cs == chunk_summaries[j]
                                IN  /\ SubSeq(last.input, at + 1, at + Len(cs)) = cs
                                    /\ j < n => last.input[at + Len(cs) + 1] = " "

\* C13: abstractive_summary calls the model once per chunk in chunk order,
\* makes one second-stage call on the single-space join of the chunk summaries
\* exactly when there is more than one chunk (its output is the summary), so
\* it makes len(chunks) calls for one chunk and len(chunks) + 1 otherwise; and
\* a call that has started returns.
C13_OneCallPerChunkThenOneReduction ==
    /\ []CallsFollowChunks
    /\ (apc = "chunks") ~> (apc = "done")

\* a three-chunk call has returned after four calls, the chunk summaries
\* not all alike
C13_Witness ==
    /\ apc = "done"
    /\ Len(chunks) = 3
    /\ Len(pipeline_calls) = 4
    /\ chunk_summaries[1] # chunk_summaries[2]

\* the returned chunks are slices of the text: the first cut at offset 0, each
\* at most max_chars long, each next one cut max_chars - overlap after the one
\* before, the last one ending where the text ends, every position of the
\* text inside some chunk; and they are what _chunk_text computes in one go
ChunksCoverText ==
    chunker.pc = "done" =>
        LET t == chunker.text
            cs == chunker.chunks
            at == chunker.starts
            n == Len(cs)
        IN  /\ n >= 1 /\ Len(at) = n
            /\ at[1] = 0
            /\ \A j \in 1..n :
                 /\ Len(cs[j]) <= chunker.max_chars
                 /\ cs[j] = SubSeq(t, at[j] + 1, at[j] + Len(cs[j]))
                 /\ j < n => at[j + 1] = at[j] + (chunker.max_chars - chunker.overlap)
            /\ at[n] + Len(cs[n]) = Len(t)
            /\ \A i \in 1..Len(t) : \E j \in 1..n : at[j] < i /\ i <= at[j] + Len(cs[j])
            /\ cs = _chunk_text(t, chunker.max_chars, chunker.overlap)

\* C14: for every text and every parameters with 0 <= overlap < max_chars,
\* the defaults among them, the _chunk_text loop ends, and the chunks it
\* returns cover the text as ChunksCoverText says.
C14_ChunkLoopEndsAndCovers ==
    /\ []ChunksCoverText
    /\ (chunker.pc = "loop") ~> (chunker.pc = "done")

\* a call with a non-zero overlap has returned three or more chunks, the last
\* one shorter than max_chars
C14_Witness ==
    /\ chunker.pc = "done"
    /\ chunker.overlap >= 1
    /\ Len(chunker.chunks) >= 3
    /\ Len(chunker.chunks[Len(chunker.chunks)]) < chunker.max_chars

\* C15: once _sentence_model holds a handle, no step changes it: it is never
\* replaced and never reset, so every later get_sentence_model call returns
\* the first handle.  (The claim as stated; a thread that saw None before the
\* first store, C9, stores its own handle over the first one.)
C15_FirstHandleStays ==
    [][_sentence_model # <<>> => _sentence_model' = _sentence_model]_vars

====
